---- MODULE Spec2Model ----
(***************************************************************************)
(* Invoice ingestion of the filament tracker: the supplier parsers          *)
(* (src/src/parsers) and the per-invoice pipeline of src/src/ingest.py.     *)
(*                                                                         *)
(* Text representation.  An invoice text is a sequence of tokens (strings) *)
(* separated by single blanks; a token is a maximal piece of text that the *)
(* regular expressions of the parsers treat as one unit (a word, a SKU, a  *)
(* price, a vendor phrase such as "Bambu Lab").  Character offsets are     *)
(* computed from the real token lengths, so the 120/220/240 character      *)
(* context windows of the parsers are the windows of the code.  What a     *)
(* regular expression finds inside one token is given by a table over the  *)
(* token alphabet, written next to the expression it tabulates.  A token   *)
(* cut by the edge of a context window is not seen by the window's         *)
(* searches.                                                               *)
(*                                                                         *)
(* Confidence values are scaled by 100 (0.95 is 95).                       *)
(***************************************************************************)
EXTENDS Integers, Sequences, FiniteSets, TLC

VARIABLES
    text,          \* parser run: the text handed to parse_invoice
    result,        \* parser run: the ParseResult returned, or NoResult
    pdf_files,     \* invoices/*.pdf in glob order (sequence of PDF records)
    db_file,       \* site/db.json: the persisted catalog (sequence of records)
    images,        \* site/images: SKU -> content of <SKU>.png ("none" = no file)
    tmp_files,     \* .tmp: names of the rendered pages that exist
    image_map_file,      \* image_map.json as load_image_map returns it
    line_overrides_file, \* line_overrides.json as load_line_overrides returns it
    runs_left,     \* ingest_all invocations still to come
    reprocess_existing,  \* ingest_all's argument
    pc,            \* position of the control flow
    idx,           \* ingest_all: index into pdf_files of the current PDF
    db,            \* ingest_all: the catalog in memory
    existing,      \* ingest_all: sourceFile keys present when the run started
    outcome,       \* ingest_all: per PDF index, what happened in this run
    db_at_start,   \* ingest_all: the catalog as load_db returned it (history)
    now,           \* the clock read by datetime.now(): the number of the run
    parsed,        \* ingest_one: [supplier, confidence]
    lines,         \* ingest_one: the line items
    product_images,\* ingest_one: number of qualifying embedded images
    image_map,     \* ingest_one: the loaded image map
    line_overrides,\* ingest_one: the loaded override table
    k,             \* ingest_one: loop index of the running per-line loop
    used_embedded, \* ingest_one: embedded images saved
    embedded_skus, \* ingest_one: SKUs that got an embedded image
    mapped_skus,   \* ingest_one: SKUs that got a mapped image
    written,       \* ingest_one: thumbnails written so far in this call (history)
    callers        \* concurrent callers of ingest_one: the position of each

vars == <<text, result, pdf_files, db_file, images, tmp_files, image_map_file,
          line_overrides_file, runs_left, reprocess_existing, pc, idx, db,
          existing, outcome, db_at_start, now, parsed, lines, product_images,
          image_map, line_overrides, k, used_embedded, embedded_skus,
          mapped_skus, written, callers>>

(***************************************************************************)
(* Bounds of the exploration.                                              *)
(***************************************************************************)
MaxFrags == 3
MaxImages == 2
MaxRuns == 2
MaxPrior == 1

Min(a, b) == IF a < b THEN a ELSE b
Max(a, b) == IF a > b THEN a ELSE b

(***************************************************************************)
(* The token alphabet.                                                     *)
(***************************************************************************)
X10 == ".........."
X50 == X10 \o X10 \o X10 \o X10 \o X10
\* 250 characters of text in which no expression of any parser matches
Pad == X50 \o X50 \o X50 \o X50 \o X50

SkuA == "A00-D0-1.75-1000-SPL"
SkuAlow == "A00-D0-1.75-1000-spl"
SkuB == "A01-K1-1.75-1000-SPLFREE"
VariantTok == "Jade White (10100)"

\* str.lower() on the tokens that carry letters relevant to detect()
Lower(t) ==
    CASE t = "Bambu Lab" -> "bambu lab"
      [] t = "Jaycar Pty Ltd" -> "jaycar pty ltd"
      [] t = "eBay" -> "ebay"
      [] t = "Order details" -> "order details"
      [] t = "Tax Invoice Number" -> "tax invoice number"
      [] t = "Invoice Number: BBLAU" -> "invoice number: bblau"
      [] t = "eBay-1.pdf" -> "ebay-1.pdf"
      [] t = "Black" -> "black"
      [] t = "Filament" -> "filament"
      [] t = "PLA" -> "pla"
      [] t = "PETG" -> "petg"
      [] t = "PLAB" -> "plab"
      [] t = "eSun" -> "esun"
      [] t = "USB" -> "usb"
      [] t = "Cable" -> "cable"
      [] t = "TX1234" -> "tx1234"
      [] t = "AB123" -> "ab123"
      [] t = SkuA -> "a00-d0-1.75-1000-spl"
      [] t = SkuAlow -> "a00-d0-1.75-1000-spl"
      [] t = SkuB -> "a01-k1-1.75-1000-splfree"
      [] t = VariantTok -> "jade white (10100)"
      [] OTHER -> t   \* no cased character: digits, prices, dots, the pad

\* str.upper()
Upper(t) ==
    CASE t = SkuA -> SkuA
      [] t = SkuAlow -> SkuA
      [] t = SkuB -> SkuB
      [] t = "tx1234" -> "TX1234"
      [] t = "TX1234" -> "TX1234"
      [] t = "AB123" -> "AB123"
      [] t = "A00-D0" -> "A00-D0"
      [] t = "A01-K1" -> "A01-K1"
      [] t = "3mm" -> "3MM"
      [] t = "Black" -> "BLACK"
      [] t = "Filament" -> "FILAMENT"
      [] t = "PLA" -> "PLA"
      [] t = "PETG" -> "PETG"
      [] t = "PLAB" -> "PLAB"
      [] t = "eSun" -> "ESUN"
      [] t = "USB" -> "USB"
      [] t = "Cable" -> "CABLE"
      [] t = "inv-a" -> "INV-A"
      [] t = "inv-b" -> "INV-B"
      [] t = "eBay-1" -> "EBAY-1"
      [] OTHER -> t   \* digits, prices and SKUs that are upper case already

(***************************************************************************)
(* Character geometry of a text: tokens joined by single blanks.           *)
(***************************************************************************)
RECURSIVE OffsetOf(_, _)
\* offset of the first character of token i
OffsetOf(txt, i) ==
    IF i = 1 THEN 0 ELSE OffsetOf(txt, i - 1) + Len(txt[i - 1]) + 1

TextLen(txt) ==
    IF txt = <<>> THEN 0 ELSE OffsetOf(txt, Len(txt)) + Len(txt[Len(txt)])

\* the tokens lying wholly inside the slice [from, to) of the text, in order
Slice(txt, from, to) ==
    LET inside == {i \in 1..Len(txt) :
                      /\ OffsetOf(txt, i) >= from
                      /\ OffsetOf(txt, i) + Len(txt[i]) <= to}
    IN  IF inside = {} THEN <<>>
        ELSE LET lo == CHOOSE i \in inside : \A j \in inside : i <= j
                 hi == CHOOSE i \in inside : \A j \in inside : j <= i
             IN  SubSeq(txt, lo, hi)

\* normalized[max(0, start - before) : min(len, end + after)] around the match
\* of length mlen that starts at the first character of token i
Context(txt, i, mlen, before, after) ==
    LET start == OffsetOf(txt, i)
    IN  Slice(txt, Max(0, start - before),
                   Min(TextLen(txt), start + mlen + after))

InCtx(ctx, toks) == \E j \in 1..Len(ctx) : ctx[j] \in toks

(***************************************************************************)
(* Tables of what the expressions of the parsers find in one token.        *)
(***************************************************************************)
\* r"PLA Silk\+?", re.I
SilkToks == {"PLA Silk+", "PLA Silk"}
\* r"PLA Matte", re.I
MatteToks == {"PLA Matte"}
\* r"PLA Translucent", re.I
TranslucentToks == {"PLA Translucent"}
\* rf"\b{name}\b", re.I, for each material name
WordToks(name) ==
    CASE name = "PLA" -> {"PLA", "PLA Matte", "PLA Silk+", "PLA Silk", "PLA Translucent"}
      [] name = "PETG" -> {"PETG"}
      [] name = "ABS" -> {"ABS"}
      [] name = "ASA" -> {"ASA"}
      [] name = "TPU" -> {"TPU"}
      [] name = "NYLON" -> {"NYLON", "Nylon"}
      [] OTHER -> {}
\* tokens of the form "Name (NNNNN)": the tail \s*\(\d{5}\) (generic: \(\d{3,8}\))
\* of the variant expression matches at the end of the token's first segment
NameCodeToks == {VariantTok}

\* The character class [A-Za-z0-9 +\-\/] of the variant expressions.  Segs(t)
\* is token t cut at its characters outside the class (runs of such characters
\* cut once): the pieces of t that a match of class characters can cover.
Segs(t) ==
    CASE t = SkuA -> <<"A00-D0-1", "75-1000-SPL">>
      [] t = SkuAlow -> <<"A00-D0-1", "75-1000-spl">>
      [] t = SkuB -> <<"A01-K1-1", "75-1000-SPLFREE">>
      [] t = VariantTok -> <<"Jade White ", "10100", "">>
      [] t = "$5.00" -> <<"", "5", "00">>
      [] t = "$20.00" -> <<"", "20", "00">>
      [] t = "$40.00" -> <<"", "40", "00">>
      [] t = "Qty: 3" -> <<"Qty", " 3">>
      [] t \in {"...", Pad} -> <<"", "">>
      [] OTHER -> <<t>>   \* class characters only
\* the piece from its first letter on, "" when it has no letter
LetterPart(p) ==
    CASE p \in {"", "1", "2", "5", "00", "20", "40", "10100", " 3"} -> ""
      [] p = "3mm" -> "mm"
      [] p = "75-1000-SPL" -> "SPL"
      [] p = "75-1000-spl" -> "spl"
      [] p = "75-1000-SPLFREE" -> "SPLFREE"
      [] OTHER -> p
\* str.strip() of a piece
Strip(p) == IF p = "Jade White " THEN "Jade White" ELSE p

RECURSIVE Join(_)
\* pieces of consecutive tokens joined by the single blanks between the tokens
Join(ps) ==
    IF ps = <<>> THEN ""
    ELSE IF Len(ps) = 1 THEN ps[1]
    ELSE ps[1] \o " " \o Join(Tail(ps))

RECURSIVE FromLetter(_)
\* a run of pieces from its first letter on
FromLetter(ps) ==
    IF ps = <<>> THEN <<>>
    ELSE IF LetterPart(Head(ps)) = "" THEN FromLetter(Tail(ps))
    ELSE <<LetterPart(Head(ps))>> \o Tail(ps)

RECURSIVE StripRun(_)
\* str.strip() of a run that starts with a letter
StripRun(ps) ==
    IF ps = <<>> THEN <<>>
    ELSE IF ps[Len(ps)] = "" THEN StripRun(SubSeq(ps, 1, Len(ps) - 1))
    ELSE SubSeq(ps, 1, Len(ps) - 1) \o <<Strip(ps[Len(ps)])>>

RECURSIVE RunsOf(_, _)
\* the maximal runs of class characters of the context, each as its pieces
RunsOf(ctx, acc) ==
    IF ctx = <<>> THEN acc
    ELSE LET segs == Segs(Head(ctx))
             single == [i \in 1..Len(segs) |-> <<segs[i]>>]
         IN  IF acc = <<>> THEN RunsOf(Tail(ctx), single)
             ELSE RunsOf(Tail(ctx),
                         SubSeq(acc, 1, Len(acc) - 1)
                         \o <<acc[Len(acc)] \o <<segs[1]>>>>
                         \o Tail(single))

RECURSIVE RunBefore(_, _)
\* the pieces of ctx[1..c] that class characters join to the start of token c+1
RunBefore(ctx, c) ==
    IF c = 0 THEN <<>>
    ELSE LET segs == Segs(ctx[c])
         IN  IF Len(segs) > 1 THEN <<segs[Len(segs)]>>
             ELSE RunBefore(ctx, c - 1) \o <<segs[1]>>
\* r"\bQty[: ]\s*(\d+)\b|\bQuantity[: ]\s*(\d+)\b|(\d+)\s*x\s*1\.0?\s*kg\b": the
\* number found in the token, 0 when the token holds no quantity phrase
QtyIn(t) == IF t = "Qty: 3" THEN 3 ELSE 0
\* r"\brefill\b", re.I
RefillToks == {"refill", "Refill"}
\* r"\s*([A-Za-z][A-Za-z0-9+\-]*)" matched at the start of a string that begins
\* with token t: the group, "" when the string does not begin with a letter
LeadingWord(t) ==
    CASE t \in {VariantTok, "Jade White "} -> "Jade"
      [] t = "Bambu Lab" -> "Bambu"
      [] t = "Jaycar Pty Ltd" -> "Jaycar"
      [] t = "Qty: 3" -> "Qty"
      [] t \in {SkuA, SkuAlow} -> "A00-D0-1"
      [] t = SkuB -> "A01-K1-1"
      [] t \in {"3mm", "1", "2", "...", "$5.00", "$20.00", "$40.00", Pad} -> ""
      [] OTHER -> t   \* a single word of letters, digits, + and -

(***************************************************************************)
(* src/src/parsers/bambu.py                                                *)
(***************************************************************************)
\* r"\b([A-Z]\d{2}-[A-Z0-9]{1,2}-1\.75-\d{4}-[A-Za-z0-9]+)\b"
BambuSkuToks == {SkuA, SkuAlow, SkuB}

normalize_sku(sku) == Upper(sku)

BambuFingerprints ==
    {"bambu lab", "tuozhu technology", "au.store.bambulab.com", "invoice number: bblau"}

BambuDetect(txt) == \E i \in 1..Len(txt) : Lower(txt[i]) \in BambuFingerprints

BambuMaterial(ctx) ==
    IF InCtx(ctx, SilkToks) THEN "PLA Silk+"
    ELSE IF InCtx(ctx, MatteToks) THEN "PLA Matte"
    ELSE IF InCtx(ctx, TranslucentToks) THEN "PLA Translucent"
    ELSE IF InCtx(ctx, WordToks("PLA")) THEN "PLA Basic"
    ELSE IF InCtx(ctx, WordToks("ABS")) THEN "ABS"
    ELSE "Unknown"

\* the first match of the variant expression in the context, as pieces: it
\* ends with the first "Name (NNNNN)" token and starts at the first letter that
\* class characters join to it; <<>> when the context holds no such token
NameCodeMatch(ctx) ==
    IF InCtx(ctx, NameCodeToks)
    THEN LET c == CHOOSE j \in 1..Len(ctx) :
                      /\ ctx[j] \in NameCodeToks
                      /\ \A h \in 1..(j - 1) : ctx[h] \notin NameCodeToks
         IN  FromLetter(RunBefore(ctx, c - 1)) \o <<ctx[c]>>
    ELSE <<>>

\* variant_match.group(0).strip() if variant_match else "Unknown"
NameCodeVariant(ctx) ==
    IF NameCodeMatch(ctx) = <<>> THEN "Unknown" ELSE Join(NameCodeMatch(ctx))

\* qty_kg: the first quantity phrase of the context, default 1
CtxQty(ctx) ==
    IF \E j \in 1..Len(ctx) : QtyIn(ctx[j]) > 0
    THEN QtyIn(ctx[CHOOSE j \in 1..Len(ctx) :
                       /\ QtyIn(ctx[j]) > 0
                       /\ \A h \in 1..(j - 1) : QtyIn(ctx[h]) = 0])
    ELSE 1

\* sku.endswith(suffix) on normalized SKUs
EndsWith(sku, suffix) ==
    CASE suffix = "-SPLFREE" -> sku = SkuB
      [] suffix = "-SPL" -> sku = SkuA
      [] OTHER -> FALSE

BambuPack(sku, ctx) ==
    IF EndsWith(sku, "-SPLFREE") THEN "Refill"
    ELSE IF EndsWith(sku, "-SPL") THEN "Spool"
    ELSE IF InCtx(ctx, RefillToks) THEN "Refill"
    ELSE "Spool"

BambuLine(txt, i) ==
    LET sku == normalize_sku(txt[i])
        ctx == Context(txt, i, Len(txt[i]), 120, 220)
    IN  [sku |-> sku, manufacturer |-> "Bambu Lab",
         material |-> BambuMaterial(ctx), variant |-> NameCodeVariant(ctx),
         pack |-> BambuPack(sku, ctx), qtyKg |-> CtxQty(ctx)]

RECURSIVE BambuExtractFrom(_, _)
BambuExtractFrom(txt, i) ==
    IF i > Len(txt) THEN <<>>
    ELSE IF txt[i] \in BambuSkuToks
         THEN <<BambuLine(txt, i)>> \o BambuExtractFrom(txt, i + 1)
         ELSE BambuExtractFrom(txt, i + 1)

\* the list `lines` before deduplication
BambuExtract(txt) == BambuExtractFrom(txt, 1)

Unknowns(line) ==
    (IF line.material = "Unknown" THEN 1 ELSE 0)
    + (IF line.variant = "Unknown" THEN 1 ELSE 0)

\* index of the entry of the insertion-ordered dict (a sequence of lines with
\* distinct SKUs) whose key is sku, 0 when there is none
KeyIndex(d, sku) ==
    IF \E j \in 1..Len(d) : d[j].sku = sku
    THEN CHOOSE j \in 1..Len(d) : d[j].sku = sku
    ELSE 0

BambuKeepsNewLast(current, existing_line) ==
    Unknowns(current) <= Unknowns(existing_line)

\* `if current_unknowns < existing_unknowns`
BambuKeepsNew(current, existing_line) ==
    Unknowns(current) < Unknowns(existing_line)

RECURSIVE BambuDedupe(_, _)
\* the by_sku loop over ls, started from the dict d
BambuDedupe(ls, d) ==
    IF ls = <<>> THEN d
    ELSE LET line == Head(ls)
             j == KeyIndex(d, line.sku)
         IN  IF j = 0 THEN BambuDedupe(Tail(ls), Append(d, line))
             ELSE IF BambuKeepsNew(line, d[j])
                  THEN BambuDedupe(Tail(ls), [d EXCEPT ![j] = line])
                  ELSE BambuDedupe(Tail(ls), d)

BambuParse(txt) ==
    LET deduped == BambuDedupe(BambuExtract(txt), <<>>)
    IN  [supplier |-> "bambu", lines |-> deduped,
         confidence |-> IF deduped # <<>> THEN 95 ELSE 20]

(***************************************************************************)
(* src/src/parsers/jaycar.py                                               *)
(***************************************************************************)
JaycarFingerprints == {"jaycar pty ltd", "help.jaycar.com.au", "tax invoice number"}

JaycarDetect(txt) == \E i \in 1..Len(txt) : Lower(txt[i]) \in JaycarFingerprints

\* r"\b([A-Z]{2}\d{3,5})\b", re.IGNORECASE
RowCodeToks == {"TX1234", "tx1234", "AB123"}
\* r"(\d+)" between blanks: int(match.group(3)), -1 when the token is no number
IntOf(t) ==
    CASE t = "1" -> 1
      [] t = "2" -> 2
      [] OTHER -> 0 - 1
\* r"\$[0-9]+(?:\.[0-9]{2})?"
PriceToks == {"$5.00", "$20.00", "$40.00"}

\* upper-cased tokens in which keyword kw occurs (kw in name_upper)
SubIn(kw) ==
    CASE kw = "FILAMENT" -> {"FILAMENT"}
      [] kw = "PLA" -> {"PLA", "PLAB", "PLA+"}
      [] kw = "PLA+" -> {"PLA+"}
      [] kw = "PETG" -> {"PETG"}
      [] kw = "ABS" -> {"ABS"}
      [] kw = "TPU" -> {"TPU"}
      [] kw = "NYLON" -> {"NYLON"}
      [] kw = "SPOOL-LESS" -> {"SPOOL-LESS"}
      [] kw = "SPOOLLESS" -> {"SPOOLLESS"}
      [] OTHER -> {}
\* upper-cased tokens that begin with kw (" " + kw in " " + name_upper)
StartsIn(kw) ==
    CASE kw = "PLA" -> {"PLA", "PLAB", "PLA+"}
      [] kw = "ABS" -> {"ABS"}
      [] kw = "PLUS" -> {"PLUS"}
      [] OTHER -> {}
\* upper-cased tokens that end with kw
EndsIn(kw) ==
    CASE kw = "SILK" -> {"SILK"}
      [] kw = "PLA" -> {"PLA"}
      [] OTHER -> {}

\* kw in name.upper(), kw without a blank
NameHas(name, kw) == \E j \in 1..Len(name) : Upper(name[j]) \in SubIn(kw)
\* (" " + kw) in (" " + name.upper())
NameHasStart(name, kw) == \E j \in 1..Len(name) : Upper(name[j]) \in StartsIn(kw)
\* (a + " " + b) in name.upper()
NameHasPair(name, a, b) ==
    \E j \in 1..(Len(name) - 1) :
        Upper(name[j]) \in EndsIn(a) /\ Upper(name[j + 1]) \in StartsIn(b)

material_from_name(name) ==
    IF NameHasPair(name, "SILK", "PLA") \/ NameHas(name, "PLA+") THEN "PLA Silk+"
    ELSE IF NameHasPair(name, "PLA", "PLUS") THEN "PLA+"
    ELSE IF NameHas(name, "PLA") THEN "PLA"
    ELSE IF NameHas(name, "PETG") THEN "PETG"
    ELSE IF NameHas(name, "ABS") THEN "ABS"
    ELSE IF NameHas(name, "TPU") THEN "TPU"
    ELSE IF NameHas(name, "NYLON") THEN "Nylon"
    ELSE "Unknown"

manufacturer_first_token(name) == name[1]

\* re.match(r"\s*([A-Za-z][A-Za-z0-9+\-]*)", name)
manufacturer_from_name(name) ==
    IF LeadingWord(name[1]) = "" THEN "Unknown" ELSE LeadingWord(name[1])

is_filament(name) ==
    \/ NameHas(name, "FILAMENT")
    \/ NameHasStart(name, "PLA")
    \/ NameHas(name, "PETG")
    \/ NameHasStart(name, "ABS")
    \/ NameHas(name, "TPU")
    \/ NameHas(name, "NYLON")

\* the token index of the quantity of the row whose code is token i: the least
\* j with a name of at least one token before it and two prices after it
\* (the lazy (.+?)); 0 when the row pattern does not match at i
RowQtyIndex(txt, i) ==
    LET ok(j) == /\ IntOf(txt[j]) >= 0
                 /\ txt[j + 1] \in PriceToks
                 /\ txt[j + 2] \in PriceToks
        cands == {j \in (i + 2)..(Len(txt) - 2) : ok(j)}
    IN  IF txt[i] \in RowCodeToks /\ cands # {}
        THEN CHOOSE j \in cands : \A h \in cands : j <= h
        ELSE 0

JaycarLine(txt, i, j) ==
    LET name == SubSeq(txt, i + 1, j - 1)
    IN  [sku |-> Upper(txt[i]),
         manufacturer |-> manufacturer_from_name(name),
         material |-> material_from_name(name),
         variant |-> Join(name),
         pack |-> IF NameHas(name, "SPOOL-LESS") \/ NameHas(name, "SPOOLLESS")
                  THEN "Refill" ELSE "Spool",
         qtyKg |-> IntOf(txt[j])]

RECURSIVE JaycarRowsFrom(_, _)
\* row_pattern.finditer(text) from token i on, keeping the filament rows
JaycarRowsFrom(txt, i) ==
    IF i > Len(txt) THEN <<>>
    ELSE LET j == RowQtyIndex(txt, i)
         IN  IF j = 0 THEN JaycarRowsFrom(txt, i + 1)
             ELSE IF is_filament(SubSeq(txt, i + 1, j - 1))
                  THEN <<JaycarLine(txt, i, j)>> \o JaycarRowsFrom(txt, j + 3)
                  ELSE JaycarRowsFrom(txt, j + 3)

JaycarParse(txt) ==
    LET ls == JaycarRowsFrom(txt, 1)
    IN  [supplier |-> "jaycar", lines |-> ls,
         confidence |-> IF ls # <<>> THEN 90 ELSE 20]

(***************************************************************************)
(* src/src/parsers/ebay.py and src/src/parsers/generic.py                  *)
(***************************************************************************)
EbayFingerprints == {"ebay", "order details"}

EbayDetect(txt) == \E i \in 1..Len(txt) : Lower(txt[i]) \in EbayFingerprints

\* r"\b([A-Z]{1,4}[0-9]{2,8}(?:-[A-Z0-9]+)?)\b" (case-sensitive): the match in
\* the token, which starts at the token's first character; "" when none
EbaySkuIn(t) ==
    CASE t \in {SkuA, SkuAlow} -> "A00-D0"
      [] t = SkuB -> "A01-K1"
      [] t = "TX1234" -> "TX1234"
      [] t = "AB123" -> "AB123"
      [] OTHER -> ""

MaterialNames == <<"PLA", "PETG", "ABS", "ASA", "TPU", "NYLON">>

\* the first name of MaterialNames found as a word in the context
CtxMaterial(ctx) ==
    IF \E m \in 1..Len(MaterialNames) : InCtx(ctx, WordToks(MaterialNames[m]))
    THEN MaterialNames[CHOOSE m \in 1..Len(MaterialNames) :
                           /\ InCtx(ctx, WordToks(MaterialNames[m]))
                           /\ \A h \in 1..(m - 1) :
                                  ~InCtx(ctx, WordToks(MaterialNames[h]))]
    ELSE "Unknown"

\* r"([A-Za-z][A-Za-z0-9 +\-\/]{6,80})": the first run of the context that
\* has 7 characters from its first letter on, stripped (no text explored has a
\* run of more than 81 characters); else f"eBay Item {sku}"
EbayVariant(ctx, sku) ==
    LET runs == RunsOf(ctx, <<>>)
        long(j) == Len(Join(FromLetter(runs[j]))) >= 7
    IN  IF \E j \in 1..Len(runs) : long(j)
        THEN Join(StripRun(FromLetter(runs[
                 CHOOSE j \in 1..Len(runs) :
                     long(j) /\ \A h \in 1..(j - 1) : ~long(h)])))
        ELSE "eBay Item " \o sku

\* d[line.sku] = line on an insertion-ordered dict
DictPut(d, line) ==
    LET j == KeyIndex(d, line.sku)
    IN  IF j = 0 THEN Append(d, line) ELSE [d EXCEPT ![j] = line]

RECURSIVE DictOf(_, _)
\* {line["sku"]: line for line in ls}, started from d
DictOf(ls, d) ==
    IF ls = <<>> THEN d ELSE DictOf(Tail(ls), DictPut(d, Head(ls)))

RECURSIVE EbayExtractFrom(_, _)
EbayExtractFrom(txt, i) ==
    IF i > Len(txt) THEN <<>>
    ELSE LET m == EbaySkuIn(txt[i])
             sku == Upper(m)
             ctx == Context(txt, i, Len(m), 120, 240)
         IN  IF m = "" \/ sku \in {"EBAY", "ORDER"} \/ CtxMaterial(ctx) = "Unknown"
             THEN EbayExtractFrom(txt, i + 1)
             ELSE <<[sku |-> sku, manufacturer |-> "SUNLU",
                     material |-> CtxMaterial(ctx),
                     variant |-> EbayVariant(ctx, sku),
                     pack |-> "Unknown", qtyKg |-> 1]>>
                  \o EbayExtractFrom(txt, i + 1)

EbayParse(txt) ==
    LET parsed_lines == DictOf(EbayExtractFrom(txt, 1), <<>>)
    IN  [supplier |-> "ebay", lines |-> parsed_lines,
         confidence |-> IF parsed_lines # <<>> THEN 65 ELSE 30]

\* r"\b([A-Z0-9]{2,6}-[A-Z0-9]{1,4}-[0-9]+\.?[0-9]*-[0-9]{3,5}-[A-Za-z0-9]+)\b"
GenericSkuToks == {SkuA, SkuAlow, SkuB}

GenericLine(txt, i) ==
    LET sku == normalize_sku(txt[i])
        ctx == Context(txt, i, Len(txt[i]), 120, 220)
        m == NameCodeMatch(ctx)
    IN  [sku |-> sku,
         manufacturer |-> IF m # <<>> /\ LeadingWord(m[1]) # ""
                          THEN LeadingWord(m[1]) ELSE "Unknown",
         material |-> CtxMaterial(ctx),
         variant |-> NameCodeVariant(ctx),
         pack |-> IF InCtx(ctx, RefillToks) \/ EndsWith(sku, "-SPLFREE")
                  THEN "Refill" ELSE "Spool",
         qtyKg |-> CtxQty(ctx)]

RECURSIVE GenericExtractFrom(_, _)
GenericExtractFrom(txt, i) ==
    IF i > Len(txt) THEN <<>>
    ELSE IF txt[i] \in GenericSkuToks
         THEN <<GenericLine(txt, i)>> \o GenericExtractFrom(txt, i + 1)
         ELSE GenericExtractFrom(txt, i + 1)

GenericDetect(txt) == TRUE

GenericParse(txt) ==
    LET deduped == DictOf(GenericExtractFrom(txt, 1), <<>>)
    IN  [supplier |-> "generic", lines |-> deduped,
         confidence |-> IF deduped # <<>> THEN 60 ELSE 10]

(***************************************************************************)
(* src/src/parsers/__init__.py                                             *)
(***************************************************************************)
parse_invoice_jaycar_first(txt) ==
    IF JaycarDetect(txt) THEN JaycarParse(txt)
    ELSE IF BambuDetect(txt) THEN BambuParse(txt)
    ELSE IF EbayDetect(txt) THEN EbayParse(txt)
    ELSE GenericParse(txt)

parse_invoice(txt) ==
    IF BambuDetect(txt) THEN BambuParse(txt)
    ELSE IF JaycarDetect(txt) THEN JaycarParse(txt)
    ELSE IF EbayDetect(txt) THEN EbayParse(txt)
    ELSE GenericParse(txt)

(***************************************************************************)
(* The parser run: parse_invoice applied to one text.                      *)
(***************************************************************************)
NoResult == [supplier |-> "", lines |-> <<>>, confidence |-> 0]

\* pieces of invoice text; a text is the concatenation of at most MaxFrags
Frags ==
    { <<"Bambu Lab">>, <<"Jaycar Pty Ltd">>, <<"eBay">>,
      <<SkuA>>, <<SkuB>>, <<"PLA">>,
      <<"Bambu Lab", SkuA>>,
      <<Pad, SkuAlow, "PLA">>,
      <<Pad, SkuA, VariantTok>>,
      <<Pad, SkuA, "PLA", VariantTok, "Qty: 3">>,
      <<"...", "TX1234", "3mm", "Black", "PLA", "Filament", "2", "$20.00", "$40.00">>,
      <<"tx1234", "eSun", "PETG", "1", "$20.00", "$20.00">>,
      <<"AB123", "USB", "Cable", "1", "$5.00", "$5.00">>,
      <<"AB123", "PLAB", "1", "$5.00", "$5.00">> }

RECURSIVE TextsOf(_)
TextsOf(n) ==
    IF n = 0 THEN {<<>>}
    ELSE LET shorter == TextsOf(n - 1)
         IN  shorter \cup {t \o f : t \in shorter, f \in Frags}

\* the state of the ingestion pipeline before anything ran
NoParsed == [supplier |-> "", confidence |-> 0]

LocalsIdle ==
    /\ parsed = NoParsed
    /\ lines = <<>>
    /\ product_images = 0
    /\ image_map = <<>>
    /\ line_overrides = <<>>
    /\ k = 0
    /\ used_embedded = 0
    /\ embedded_skus = {}
    /\ mapped_skus = {}
    /\ written = 0

ingestVars ==
    <<pdf_files, db_file, images, tmp_files, image_map_file, line_overrides_file,
      runs_left, reprocess_existing, idx, db, existing, outcome, db_at_start,
      now, parsed, lines, product_images, image_map, line_overrides, k,
      used_embedded, embedded_skus, mapped_skus, written, callers>>

InitParse ==
    /\ text \in TextsOf(MaxFrags)
    /\ result = NoResult
    /\ pc = "parse"
    /\ pdf_files = <<>>
    /\ db_file = <<>>
    /\ images = <<>>
    /\ tmp_files = {}
    /\ image_map_file = <<>>
    /\ line_overrides_file = <<>>
    /\ runs_left = 0
    /\ reprocess_existing = FALSE
    /\ idx = 0
    /\ db = <<>>
    /\ existing = {}
    /\ outcome = <<>>
    /\ db_at_start = <<>>
    /\ now = 0
    /\ callers = <<>>
    /\ LocalsIdle

\* result = parse_invoice(text)
ParseText ==
    /\ pc = "parse"
    /\ result' = parse_invoice(text)
    /\ pc' = "parsed"
    /\ UNCHANGED <<text, ingestVars>>

NextParse == ParseText

SpecParse == InitParse /\ [][NextParse]_vars

(***************************************************************************)
(* Properties of the parsers (checked under SpecParse).                    *)
(***************************************************************************)
Suppliers == {"bambu", "jaycar", "ebay", "generic"}

SkusOf(ls) == {ls[i].sku : i \in 1..Len(ls)}

\* C1: parse_invoice returns the result of exactly one parser, the first in
\* the order bambu, jaycar, ebay, generic whose detect(text) is true; the
\* supplier is one of the four tags, and a text with a bambu fingerprint gives
\* supplier "bambu" whatever other fingerprints it holds.
C1_FirstDetectorWins ==
    pc = "parsed" =>
        LET detects == <<BambuDetect(text), JaycarDetect(text),
                         EbayDetect(text), GenericDetect(text)>>
            parses == <<BambuParse(text), JaycarParse(text),
                        EbayParse(text), GenericParse(text)>>
            first == CHOOSE i \in 1..4 :
                         detects[i] /\ \A h \in 1..(i - 1) : ~detects[h]
        IN  /\ result = parses[first]
            /\ result.supplier \in Suppliers
            /\ \A i \in 1..4 : i # first => result.supplier # parses[i].supplier
            /\ (\E i \in 1..Len(text) : text[i] = "Bambu Lab")
                   => result.supplier = "bambu"

C1_Witness ==
    /\ pc = "parsed"
    /\ \E i, j, h \in 1..Len(text) :
           text[i] = "Bambu Lab" /\ text[j] = "Jaycar Pty Ltd" /\ text[h] = "eBay"
    /\ result.supplier = "bambu"

\* C4 (as claimed): every line of a ParseResult has a non-empty SKU and no two
\* lines of one ParseResult share a SKU, for all four parsers.
C4_UniqueSkus ==
    pc = "parsed" =>
        /\ \A i \in 1..Len(result.lines) : result.lines[i].sku # ""
        /\ \A i, j \in 1..Len(result.lines) :
               i # j => result.lines[i].sku # result.lines[j].sku

\* C5: in the bambu parser the extractions that share a SKU collapse to one
\* line, the one with the fewest "Unknown" material/variant values, the first
\* seen among those tied for the fewest.
C5_BambuDedupKeepsBest ==
    (pc = "parsed" /\ result.supplier = "bambu") =>
        LET ex == BambuExtract(text)
            same(i) == {j \in 1..Len(ex) : ex[j].sku = ex[i].sku}
            best(i) == CHOOSE j \in same(i) :
                           /\ \A h \in same(i) : Unknowns(ex[j]) <= Unknowns(ex[h])
                           /\ \A h \in same(i) :
                                  Unknowns(ex[h]) = Unknowns(ex[j]) => j <= h
        IN  /\ SkusOf(result.lines) = SkusOf(ex)
            /\ \A i \in 1..Len(ex) :
                   /\ Cardinality({n \in 1..Len(result.lines) :
                                      result.lines[n].sku = ex[i].sku}) = 1
                   /\ \E n \in 1..Len(result.lines) : result.lines[n] = ex[best(i)]

\* three extractions of one SKU with 2, 1 and 0 "Unknown" values, the worst
\* first, and two different extractions tied on 1
C5_Witness ==
    /\ pc = "parsed"
    /\ result.supplier = "bambu"
    /\ LET ex == BambuExtract(text)
       IN  /\ Len(ex) >= 3
           /\ \A i \in 1..Len(ex) : ex[i].sku = SkuA
           /\ Unknowns(ex[1]) > Unknowns(ex[2])
           /\ Unknowns(ex[2]) > Unknowns(ex[3])
           /\ Len(result.lines) = 1
           /\ result.lines[1] = ex[3]

C7Text ==
    <<"Jaycar Pty Ltd", "...", "TX1234", "3mm", "Black", "PLA", "Filament",
      "2", "$20.00", "$40.00">>

\* tokens that do not begin with a letter
NonLetterLed == {"3mm", "1", "2", "...", "$5.00", "$20.00", "$40.00", Pad}

Stem(name) ==
    CASE name = "inv-a.pdf" -> "inv-a"
      [] name = "inv-b.pdf" -> "inv-b"
      [] name = "eBay-1.pdf" -> "eBay-1"
      [] name = "inv-a.PDF" -> "inv-a"
      [] OTHER -> name

\* "ebay" in pdf_path.name.lower()
is_ebay_file(name) == Lower(name) \in {"ebay-1.pdf"}

\* re.sub(r"[^A-Z0-9]+", "-", pdf_path.stem.upper()).strip("-"): the stems
\* used hold letters, digits and single hyphens only
SkuBase(name) == Upper(Stem(name))

\* f"{n:02d}" and f"{n}"
TwoDigits(n) ==
    CASE n = 1 -> "01" [] n = 2 -> "02" [] n = 3 -> "03" [] n = 4 -> "04"
      [] OTHER -> "05"
Str(n) ==
    CASE n = 1 -> "1" [] n = 2 -> "2" [] n = 3 -> "3" [] n = 4 -> "4"
      [] OTHER -> "5"

invoice_key_from_filename(name) == name

make_ebay_fallback_lines(name, count) ==
    [i \in 1..count |->
        [sku |-> "EBY-" \o SkuBase(name) \o "-" \o TwoDigits(i),
         manufacturer |-> "SUNLU", material |-> "Filament",
         variant |-> "eBay Filament Item " \o Str(i),
         pack |-> "Unknown", qtyKg |-> 1]]

\* what the OCR pass read: the item number found ("" when none) and the
\* accepted variants; no variants also stands for an engine that is missing
OcrReads ==
    { [item_code |-> "", variants |-> <<>>],
      [item_code |-> "123456789", variants |-> <<"Black PETG">>],
      [item_code |-> "", variants |-> <<"Matte Black PETG (Matte)", "Red PETG">>] }

\* the lines extract_ebay_lines_from_ocr builds from what was read
extract_ebay_lines_from_ocr(name, read) ==
    [i \in 1..Len(read.variants) |->
        [sku |-> IF read.item_code # ""
                 THEN read.item_code \o "-" \o TwoDigits(i)
                 ELSE "EBY-" \o SkuBase(name) \o "-" \o TwoDigits(i),
         manufacturer |-> "SUNLU", material |-> "PETG",
         variant |-> read.variants[i], pack |-> "Spool", qtyKg |-> 1]]

\* {str(k).upper(): str(v) for k, v in data.items()}
load_image_map(file) ==
    [key \in {Upper(f) : f \in DOMAIN file} |->
        file[CHOOSE f \in DOMAIN file : Upper(f) = key]]

\* normalized[str(key).upper()] = value
load_line_overrides(file) ==
    [key \in {Upper(f) : f \in DOMAIN file} |->
        file[CHOOSE f \in DOMAIN file : Upper(f) = key]]

allowed_fields == {"manufacturer", "material", "variant", "pack", "qtyKg"}

OverrideAnyField(line, data) ==
    [f \in DOMAIN line \cup DOMAIN data |->
        IF f \in DOMAIN data THEN data[f] ELSE line[f]]

\* for field, value in data.items(): if field in allowed_fields: line[field] = value
OverrideLine(line, data) ==
    [f \in DOMAIN line \cup (DOMAIN data \cap allowed_fields) |->
        IF f \in DOMAIN data \cap allowed_fields THEN data[f] ELSE line[f]]

apply_line_overrides(ls, overrides) ==
    [i \in 1..Len(ls) |->
        IF Upper(ls[i].sku) = "" \/ Upper(ls[i].sku) \notin DOMAIN overrides
        THEN ls[i]
        ELSE OverrideLine(ls[i], overrides[Upper(ls[i].sku)])]

RelabelConfidenceHalf(c) == Max(c, 50)

\* parsed.confidence = max(parsed.confidence, 0.4)
RelabelConfidence(c) == Max(c, 40)

\* lines 274-290 of ingest_one: the supplier, confidence and lines after the
\* adjustments for eBay files; ocr_lines is what the OCR pass returned
AdjustForEbay(name, p, ls, n_images, ocr_lines) ==
    LET ebay_file == is_ebay_file(name)
        p1 == IF ebay_file /\ p.supplier = "generic"
              THEN [supplier |-> "ebay",
                    confidence |-> RelabelConfidence(p.confidence)]
              ELSE p
        ocr == ebay_file /\ ocr_lines # <<>>
        p2 == IF ocr THEN [supplier |-> "ebay",
                           confidence |-> Max(p1.confidence, 85)]
              ELSE p1
        ls2 == IF ocr THEN ocr_lines ELSE ls
        fallback == /\ (p2.supplier = "ebay" \/ ebay_file)
                    /\ ls2 = <<>>
                    /\ n_images > 0
    IN  IF fallback
        THEN [parsed |-> [supplier |-> "ebay", confidence |-> 50],
              lines |-> make_ebay_fallback_lines(name, n_images)]
        ELSE [parsed |-> p2, lines |-> ls2]

TmpNameShared(name) == "page1.png"

\* TMP_DIR / f"{pdf_path.stem}.page1.png"
TmpName(name) == Stem(name) \o ".page1.png"

ShouldSkipPlaceholderKeepsFile(sku, supplier) ==
    images[sku].kind # "none"

ShouldSkipPlaceholderNoFileCheck(sku, supplier) ==
    supplier \notin {"jaycar", "generic"}

\* out_thumb.exists() and not should_refresh_placeholder
ShouldSkipPlaceholder(sku, supplier) ==
    images[sku].kind # "none" /\ supplier \notin {"jaycar", "generic"}

\* image_map.get(sku)
MapSource(sku) == IF sku \in DOMAIN image_map THEN image_map[sku] ELSE ""

NoFile == [kind |-> "none", at |-> 0]
OldFile == [kind |-> "old", at |-> 0]
\* the PNG a strategy writes now
Thumb(kind) == [kind |-> kind, at |-> now]

(***************************************************************************)
(* The inputs explored.                                                    *)
(***************************************************************************)
IngestTexts ==
    { <<>>,
      <<SkuA, "PLA">>,
      <<"Bambu Lab">>,
      <<"Bambu Lab", SkuA, "PLA", SkuB>>,
      <<"Jaycar Pty Ltd">>,
      C7Text,
      C7Text \o <<"tx1234", "eSun", "PETG", "1", "$20.00", "$20.00">>,
      <<"eBay">>,
      <<"eBay", "TX1234", "PLA">> }

Library ==
    { [name |-> n, text |-> t, nimg |-> g] :
          n \in {"inv-a.pdf", "eBay-1.pdf"}, t \in IngestTexts, g \in 0..MaxImages }

BatchA == [name |-> "inv-a.pdf", text |-> C7Text, nimg |-> 1]
BatchB == [name |-> "inv-b.pdf", text |-> <<"Bambu Lab", SkuA, "PLA">>, nimg |-> 0]

\* the SKUs the ingestion of a PDF can produce lines for
PossibleSkus(pdf) ==
    SkusOf(parse_invoice(pdf.text).lines)
    \cup SkusOf(make_ebay_fallback_lines(pdf.name, pdf.nimg))
    \cup (IF is_ebay_file(pdf.name)
          THEN UNION {SkusOf(extract_ebay_lines_from_ocr(pdf.name, r)) : r \in OcrReads}
          ELSE {})

AllSkus == UNION {PossibleSkus(pdf) : pdf \in Library \cup {BatchA, BatchB}}

OverrideFiles ==
    { <<>>,
      ("tx1234" :> [manufacturer |-> "eSun", qtyKg |-> 5, sku |-> "HACKED",
                    color |-> "red"]),
      (SkuA :> [material |-> "PETG", variant |-> "Galaxy Black"]
       @@ "EBY-EBAY-1-01" :> [pack |-> "Spool"]) }

ImageMapFiles ==
    { <<>>,
      (SkuA :> "thumbs/a.png" @@ SkuB :> ""
       @@ "tx1234" :> "https://cdn.example/tx1234.png"
       @@ "EBY-EBAY-1-01" :> "thumbs/ebay.png") }

(***************************************************************************)
(* ingest_all and ingest_one as a state machine.  pc is the position:      *)
(* "idle" between invocations of ingest_all, "loop" at the head of its for *)
(* loop, and inside ingest_one "adjust" (line 272), "overrides" (292),     *)
(* "embedded" (299), "render" (311), "crop" (316), "unlink" (322), "map"   *)
(* (331), "placeholder" (335) and "returned" (360).                        *)
(***************************************************************************)
envVars == <<pdf_files, image_map_file, line_overrides_file, callers>>
runVars == <<runs_left, reprocess_existing, existing, db_at_start, now>>
loadVars == <<text, result, product_images, image_map, line_overrides>>
loopVars == <<used_embedded, embedded_skus, mapped_skus>>

Pdf == pdf_files[idx]

SourceFiles(catalog) == {catalog[i].sourceFile : i \in 1..Len(catalog)}

\* the thumbnails site/images holds before the first run: at most MaxPrior,
\* of the SKUs the PDFs can produce
PriorImages(pdfs) ==
    {prior \in SUBSET UNION {PossibleSkus(pdfs[i]) : i \in 1..Len(pdfs)} :
        Cardinality(prior) <= MaxPrior}

Init ==
    /\ pdf_files \in {<<p>> : p \in Library} \cup {<<BatchA, BatchB>>, <<BatchB, BatchA>>}
    /\ \E prior \in PriorImages(pdf_files) :
           images = [sku \in AllSkus |-> IF sku \in prior THEN OldFile ELSE NoFile]
    /\ image_map_file \in IF Len(pdf_files) = 1 THEN ImageMapFiles ELSE {<<>>}
    /\ line_overrides_file \in IF Len(pdf_files) = 1 THEN OverrideFiles ELSE {<<>>}
    /\ db_file = <<>>
    /\ tmp_files = {}
    /\ runs_left = IF Len(pdf_files) = 1 THEN 1 ELSE MaxRuns
    /\ reprocess_existing = FALSE
    /\ pc = "idle"
    /\ idx = 0
    /\ db = <<>>
    /\ existing = {}
    /\ outcome = <<>>
    /\ db_at_start = <<>>
    /\ now = 0
    /\ callers = <<>>
    /\ text = <<>>
    /\ result = NoResult
    /\ LocalsIdle

\* ingest_all, lines 371-378
StartRun ==
    /\ pc = "idle"
    /\ runs_left > 0
    /\ runs_left' = runs_left - 1
    /\ reprocess_existing' \in BOOLEAN
    /\ db' = db_file
    /\ existing' = SourceFiles(db_file)
    /\ db_at_start' = db_file
    /\ now' = now + 1
    /\ idx' = 1
    /\ outcome' = [i \in 1..Len(pdf_files) |-> "pending"]
    /\ pc' = "loop"
    /\ UNCHANGED <<envVars, db_file, images, tmp_files, loadVars, parsed, lines,
                   k, loopVars, written>>

\* the for loop is exhausted: build_site and the summary
EndRun ==
    /\ pc = "loop"
    /\ idx > Len(pdf_files)
    /\ pc' = "idle"
    /\ UNCHANGED <<envVars, runVars, db, db_file, images, tmp_files, idx, outcome,
                   loadVars, parsed, lines, k, loopVars, written>>

\* if not reprocess_existing and pdf_path.name in existing: continue
SkipExisting ==
    /\ pc = "loop"
    /\ idx <= Len(pdf_files)
    /\ ~reprocess_existing /\ Pdf.name \in existing
    /\ outcome' = [outcome EXCEPT ![idx] = "skipped"]
    /\ idx' = idx + 1
    /\ UNCHANGED <<envVars, runVars, db, db_file, images, tmp_files, pc,
                   loadVars, parsed, lines, k, loopVars, written>>

\* the locals of ingest_one go out of scope
ResetLocals ==
    /\ text' = <<>>
    /\ result' = NoResult
    /\ parsed' = NoParsed
    /\ lines' = <<>>
    /\ product_images' = 0
    /\ image_map' = <<>>
    /\ line_overrides' = <<>>
    /\ k' = 0
    /\ used_embedded' = 0
    /\ embedded_skus' = {}
    /\ mapped_skus' = {}
    /\ written' = 0

HandleFailureStops(reason) ==
    /\ outcome' = [outcome EXCEPT ![idx] = reason]
    /\ idx' = Len(pdf_files) + 1
    /\ pc' = "loop"
    /\ ResetLocals
    /\ UNCHANGED <<envVars, runVars, db, db_file>>

\* except Exception as e: failed += 1, and the loop goes on
HandleFailure(reason) ==
    /\ outcome' = [outcome EXCEPT ![idx] = reason]
    /\ idx' = idx + 1
    /\ pc' = "loop"
    /\ ResetLocals
    /\ UNCHANGED <<envVars, runVars, db, db_file>>

\* ingest_one, lines 261-271: text extraction, parsing, the two tables and
\* the embedded images; opening the PDF can raise
BeginIngest ==
    /\ pc = "loop"
    /\ idx <= Len(pdf_files)
    /\ reprocess_existing \/ Pdf.name \notin existing
    /\ \/ /\ HandleFailure("failed: extract text")
          /\ UNCHANGED <<images, tmp_files>>
       \/ /\ text' = Pdf.text
          /\ result' = parse_invoice(Pdf.text)
          /\ parsed' = [supplier |-> parse_invoice(Pdf.text).supplier,
                        confidence |-> parse_invoice(Pdf.text).confidence]
          /\ lines' = parse_invoice(Pdf.text).lines
          /\ image_map' = load_image_map(image_map_file)
          /\ line_overrides' = load_line_overrides(line_overrides_file)
          /\ product_images' = Pdf.nimg
          /\ k' = 0
          /\ used_embedded' = 0
          /\ embedded_skus' = {}
          /\ mapped_skus' = {}
          /\ written' = 0
          /\ pc' = "adjust"
          /\ UNCHANGED <<envVars, runVars, db, db_file, images, tmp_files, idx,
                         outcome>>

\* ingest_one, lines 272-290; the OCR pass runs for eBay-named files only.
\* Missing modules (the imports of lines 39-44) give no lines; building the
\* engine (line 47) and opening or reading the PDF (lines 46-58) are in no try
\* block and can raise
AdjustStep ==
    /\ pc = "adjust"
    /\ \/ /\ is_ebay_file(Pdf.name)
          /\ HandleFailure("failed: ocr")
          /\ UNCHANGED <<images, tmp_files>>
       \/ /\ is_ebay_file(Pdf.name)
          /\ HandleFailure("failed: ocr engine")
          /\ UNCHANGED <<images, tmp_files>>
       \/ /\ \E read \in OcrReads :
                LET ocr_lines == IF is_ebay_file(Pdf.name)
                                 THEN extract_ebay_lines_from_ocr(Pdf.name, read)
                                 ELSE <<>>
                    adjusted == AdjustForEbay(Pdf.name, parsed, lines,
                                              product_images, ocr_lines)
                IN  /\ parsed' = adjusted.parsed
                    /\ lines' = adjusted.lines
          /\ pc' = "overrides"
          /\ UNCHANGED <<envVars, runVars, db, db_file, images, tmp_files, idx,
                         outcome, loadVars, k, loopVars, written>>

\* ingest_one, lines 292-297
ApplyOverrides ==
    /\ pc = "overrides"
    /\ lines' = apply_line_overrides(lines, line_overrides)
    /\ used_embedded' = 0
    /\ embedded_skus' = {}
    /\ k' = 1
    /\ pc' = "embedded"
    /\ UNCHANGED <<envVars, runVars, db, db_file, images, tmp_files, idx, outcome,
                   loadVars, parsed, mapped_skus, written>>

\* ingest_one, lines 299-309: one turn of the embedded-image loop; the file
\* is named after line['sku']
EmbeddedStep ==
    /\ pc = "embedded"
    /\ product_images > 0 /\ k <= Len(lines) /\ k <= product_images
    /\ \/ /\ images' = [images EXCEPT ![lines[k].sku] = Thumb("embedded")]
          /\ used_embedded' = used_embedded + 1
          /\ embedded_skus' = embedded_skus \cup {Upper(lines[k].sku)}
          /\ written' = written + 1
       \/ \* save_image_bytes_as_png raised: warning only
          UNCHANGED <<images, used_embedded, embedded_skus, written>>
    /\ k' = k + 1
    /\ UNCHANGED <<envVars, runVars, db, db_file, tmp_files, pc, idx, outcome,
                   loadVars, parsed, lines, mapped_skus>>

\* the embedded-image loop is over (or was not entered)
EmbeddedDone ==
    /\ pc = "embedded"
    /\ ~(product_images > 0 /\ k <= Len(lines) /\ k <= product_images)
    /\ pc' = "render"
    /\ UNCHANGED <<envVars, runVars, db, db_file, images, tmp_files, idx, outcome,
                   loadVars, parsed, lines, k, loopVars, written>>

\* ingest_one, lines 311-313 and 328: the page is rendered outside any try
RenderPage ==
    /\ pc = "render"
    /\ IF used_embedded = 0 /\ parsed.supplier = "bambu"
       THEN \/ /\ tmp_files' = tmp_files \cup {TmpName(Pdf.name)}
               /\ k' = 1
               /\ pc' = "crop"
               /\ UNCHANGED <<envVars, runVars, db, db_file, images, idx, outcome,
                              loadVars, parsed, lines, loopVars, written>>
            \/ \* render_first_page_to_png raised, before or after pix.save
               \* created the file
               /\ HandleFailure("failed: render")
               /\ tmp_files' \in {tmp_files, tmp_files \cup {TmpName(Pdf.name)}}
               /\ UNCHANGED images
       ELSE /\ k' = 1
            /\ pc' = "map"
            /\ UNCHANGED <<envVars, runVars, db, db_file, images, tmp_files, idx,
                           outcome, loadVars, parsed, lines, loopVars, written>>

\* ingest_one, lines 316-321: one turn of the crop loop
CropStep ==
    /\ pc = "crop"
    /\ k <= Len(lines)
    /\ \/ /\ images' = [images EXCEPT ![lines[k].sku] = Thumb("crop")]
          /\ written' = written + 1
       \/ \* crop_thumbnail_from_page_png raised: warning only
          UNCHANGED <<images, written>>
    /\ k' = k + 1
    /\ UNCHANGED <<envVars, runVars, db, db_file, tmp_files, pc, idx, outcome,
                   loadVars, parsed, lines, loopVars>>

\* ingest_one, lines 322-327: the finally clause removes the rendered page
UnlinkPage ==
    /\ pc = "crop"
    /\ k > Len(lines)
    /\ \/ tmp_files' = tmp_files \ {TmpName(Pdf.name)}
       \/ \* unlink raised: warning only
          tmp_files' = tmp_files
    /\ k' = 1
    /\ pc' = "map"
    /\ UNCHANGED <<envVars, runVars, db, db_file, images, idx, outcome, loadVars,
                   parsed, lines, loopVars, written>>

\* apply_image_map_for_lines, lines 232-252: one turn of its loop
MapStep ==
    /\ pc = "map"
    /\ image_map # <<>> /\ k <= Len(lines)
    /\ LET sku == Upper(lines[k].sku)
       IN  IF MapSource(sku) = ""
           THEN UNCHANGED <<images, mapped_skus, written>>
           ELSE \/ /\ images' = [images EXCEPT ![sku] = Thumb("mapped")]
                   /\ mapped_skus' = mapped_skus \cup {sku}
                   /\ written' = written + 1
                \/ \* save_image_source_as_png raised: warning only
                   UNCHANGED <<images, mapped_skus, written>>
    /\ k' = k + 1
    /\ UNCHANGED <<envVars, runVars, db, db_file, tmp_files, pc, idx, outcome,
                   loadVars, parsed, lines, used_embedded, embedded_skus>>

\* apply_image_map_for_lines returns (at once when the table is empty)
MapDone ==
    /\ pc = "map"
    /\ ~(image_map # <<>> /\ k <= Len(lines))
    /\ k' = 1
    /\ pc' = "placeholder"
    /\ UNCHANGED <<envVars, runVars, db, db_file, images, tmp_files, idx, outcome,
                   loadVars, parsed, lines, loopVars, written>>

\* ingest_one, lines 336-355: one turn of the placeholder loop; the call of
\* create_placeholder_thumbnail is in no try block
PlaceholderStep ==
    /\ pc = "placeholder"
    /\ k <= Len(lines)
    /\ LET sku == Upper(lines[k].sku)
       IN  IF \/ sku \in embedded_skus \cup mapped_skus
              \/ ShouldSkipPlaceholder(sku, parsed.supplier)
           THEN /\ k' = k + 1
                /\ UNCHANGED <<envVars, runVars, db, db_file, images, tmp_files,
                               pc, idx, outcome, loadVars, parsed, lines,
                               loopVars, written>>
           ELSE \/ /\ images' = [images EXCEPT ![sku] = Thumb("placeholder")]
                   /\ written' = written + 1
                   /\ k' = k + 1
                   /\ UNCHANGED <<envVars, runVars, db, db_file, tmp_files, pc,
                                  idx, outcome, loadVars, parsed, lines, loopVars>>
                \/ /\ HandleFailure("failed: placeholder")
                   /\ UNCHANGED <<images, tmp_files>>

\* ingest_one, lines 357-366: the record is built and returned
ReturnRecord ==
    /\ pc = "placeholder"
    /\ k > Len(lines)
    /\ pc' = "returned"
    /\ UNCHANGED <<envVars, runVars, db, db_file, images, tmp_files, idx, outcome,
                   loadVars, parsed, lines, k, loopVars, written>>

Invoice ==
    [sourceFile |-> invoice_key_from_filename(Pdf.name), ingestedAt |-> now,
     supplier |-> parsed.supplier, parseConfidence |-> parsed.confidence,
     lines |-> lines]

UpsertAppend(catalog, invoice) == Append(catalog, invoice)

\* ingest_all, lines 386-393: the first record of the same sourceFile is
\* replaced, else the record is appended
Upsert(catalog, invoice) ==
    IF invoice.sourceFile \in SourceFiles(catalog)
    THEN LET first == CHOOSE i \in 1..Len(catalog) :
                          /\ catalog[i].sourceFile = invoice.sourceFile
                          /\ \A j \in 1..(i - 1) :
                                 catalog[j].sourceFile # invoice.sourceFile
         IN  [catalog EXCEPT ![first] = invoice]
    ELSE Append(catalog, invoice)

\* ingest_all, lines 385-398 after ingest_one returned: the in-memory list is
\* updated and saved; a failing save is counted like any other failure
PersistRecord ==
    /\ pc = "returned"
    /\ db' = Upsert(db, Invoice)
    /\ \/ /\ db_file' = Upsert(db, Invoice)
          /\ outcome' = [outcome EXCEPT ![idx] = "ingested"]
       \/ /\ db_file' = db_file
          /\ outcome' = [outcome EXCEPT ![idx] = "failed: save"]
    /\ idx' = idx + 1
    /\ pc' = "loop"
    /\ ResetLocals
    /\ UNCHANGED <<envVars, runVars, images, tmp_files>>

Next ==
    \/ StartRun
    \/ EndRun
    \/ SkipExisting
    \/ BeginIngest
    \/ AdjustStep
    \/ ApplyOverrides
    \/ EmbeddedStep
    \/ EmbeddedDone
    \/ RenderPage
    \/ CropStep
    \/ UnlinkPage
    \/ MapStep
    \/ MapDone
    \/ PlaceholderStep
    \/ ReturnRecord
    \/ PersistRecord

Spec == Init /\ [][Next]_vars

(***************************************************************************)
(* Properties of the ingestion (checked under Spec).                       *)
(***************************************************************************)
\* the positions of ingest_one after the overrides were applied
Thumbing == {"embedded", "render", "crop", "map", "placeholder"}

\* the second field of the file name of a PDF record
NameAt(i) == pdf_files[i].name

RecordsOf(catalog, name) ==
    SelectSeq(catalog, LAMBDA record : record.sourceFile = name)

\* C2 (as claimed): when ingest_one returns, the thumbnail of every SKU that
\* had its embedded image saved and also has a source in the image map is the
\* embedded image, not the mapped one.
C2_EmbeddedWins ==
    pc = "returned" =>
        \A i \in 1..Len(lines) :
            LET sku == Upper(lines[i].sku)
            IN  (sku \in embedded_skus /\ MapSource(sku) # "")
                    => images[sku].kind = "embedded"

\* C3: whenever ingest_one returns a record, a thumbnail file exists for the
\* SKU of every line of the record, whatever the supplier and whatever the
\* image directory held before.
C3_PlaceholderAlways ==
    pc = "returned" =>
        \A i \in 1..Len(lines) : images[Upper(lines[i].sku)].kind # "none"

C3_Witness ==
    /\ pc = "returned"
    /\ parsed.supplier = "bambu"
    /\ used_embedded = 0 /\ mapped_skus = {}
    /\ Len(lines) = 2
    /\ \A i \in 1..Len(lines) : images[Upper(lines[i].sku)] = Thumb("placeholder")

ZeroLineMax(supplier) ==
    CASE supplier = "bambu" -> 20
      [] supplier = "jaycar" -> 20
      [] supplier = "ebay" -> 40
      [] OTHER -> 10

SomeLineMin(supplier) ==
    CASE supplier = "bambu" -> 95
      [] supplier = "jaycar" -> 90
      [] supplier = "ebay" -> 50
      [] OTHER -> 60

ParserConfidence(supplier, some_line) ==
    CASE supplier = "bambu" -> IF some_line THEN 95 ELSE 20
      [] supplier = "jaycar" -> IF some_line THEN 90 ELSE 20
      [] supplier = "ebay" -> IF some_line THEN 65 ELSE 30
      [] OTHER -> IF some_line THEN 60 ELSE 10

\* C6: a parser gives 0.2/0.95 (bambu), 0.2/0.9 (jaycar), 0.3/0.65 (ebay) and
\* 0.1/0.6 (generic) for zero lines / at least one line; and at every position
\* of ingest_one, also after the adjustments for eBay-named files, a result
\* with zero lines has a confidence at most a per-supplier level that lies
\* strictly below the confidence of every result of that supplier with at
\* least one line; the confidence is within [0, 1].
C6_ConfidenceMonotone ==
    /\ \A supplier \in Suppliers : ZeroLineMax(supplier) < SomeLineMin(supplier)
    /\ result # NoResult =>
           /\ result.supplier \in Suppliers
           /\ result.confidence =
                  ParserConfidence(result.supplier, result.lines # <<>>)
    /\ parsed # NoParsed =>
           /\ parsed.supplier \in Suppliers
           /\ parsed.confidence \in 0..100
           /\ lines = <<>> => parsed.confidence <= ZeroLineMax(parsed.supplier)
           /\ lines # <<>> => parsed.confidence >= SomeLineMin(parsed.supplier)

C6_Witness ==
    /\ pc = "returned"
    /\ is_ebay_file(NameAt(idx))
    /\ result.supplier = "generic"
    /\ parsed = [supplier |-> "ebay", confidence |-> 40]
    /\ lines = <<>>

\* C8: the step that applies the overrides keeps the number and the order of
\* the lines, leaves every line whose upper-cased SKU is no key of the table
\* as it is, changes no field other than manufacturer, material, variant, pack
\* and qtyKg, and changes those only to the value the table gives; it runs
\* when no thumbnail of this invoice has been written, the lines do not change
\* afterwards, and thumbnails are written only afterwards.
C8_OverridesFrame ==
    [][ /\ pc = "overrides" =>
            /\ written = 0
            /\ images' = images
            /\ pc' = "embedded"
            /\ Len(lines') = Len(lines)
            /\ \A i \in 1..Len(lines) :
                   LET key == Upper(lines[i].sku)
                   IN  /\ DOMAIN lines'[i] = DOMAIN lines[i]
                       /\ key \notin DOMAIN line_overrides => lines'[i] = lines[i]
                       /\ \A f \in DOMAIN lines[i] :
                              lines'[i][f] # lines[i][f] =>
                                  /\ f \in allowed_fields
                                  /\ f \in DOMAIN line_overrides[key]
                                  /\ lines'[i][f] = line_overrides[key][f]
                       /\ key \in DOMAIN line_overrides =>
                              \A f \in allowed_fields \cap DOMAIN line_overrides[key] :
                                  lines'[i][f] = line_overrides[key][f]
        /\ (pc \in Thumbing /\ pc' \in Thumbing \cup {"returned"}) => lines' = lines
        /\ images' # images => pc \in Thumbing ]_vars

C8_Witness ==
    /\ pc = "embedded" /\ k = 1
    /\ \E i \in 1..Len(lines) :
           /\ lines[i].sku = "TX1234"
           /\ "color" \notin DOMAIN lines[i]
           /\ lines[i].manufacturer = "eSun"
           /\ lines[i].qtyKg = 5
           /\ "TX1234" \in DOMAIN line_overrides
           /\ line_overrides["TX1234"].sku = "HACKED"
           /\ line_overrides["TX1234"].color = "red"

\* the failures of ingest_one, as ingest_all records them
IngestOneFailures ==
    {"failed: extract text", "failed: ocr", "failed: ocr engine", "failed: render",
     "failed: placeholder"}

\* C9: an invoice whose ingest_one failed has in the persisted catalog (and in
\* the list that will be saved next) exactly the records it had when the run
\* began, none if it had none; an invoice counted as ingested has its record
\* of this run persisted; and when the run is over no PDF of the batch is left
\* unprocessed.
C9_FailedInvoiceSkipped ==
    /\ \A i \in DOMAIN outcome :
           outcome[i] \in IngestOneFailures =>
               /\ RecordsOf(db_file, NameAt(i)) = RecordsOf(db_at_start, NameAt(i))
               /\ RecordsOf(db, NameAt(i)) = RecordsOf(db_at_start, NameAt(i))
    /\ \A i \in DOMAIN outcome :
           outcome[i] = "ingested" =>
               \E j \in 1..Len(db_file) :
                   /\ db_file[j].sourceFile = NameAt(i)
                   /\ db_file[j].ingestedAt = now
    /\ pc = "idle" => \A i \in DOMAIN outcome : outcome[i] # "pending"

C9_Witness ==
    /\ pc = "idle"
    /\ Len(pdf_files) = 2 /\ Len(outcome) = 2
    /\ outcome[1] \in IngestOneFailures
    /\ outcome[2] = "ingested"
    /\ RecordsOf(db_at_start, NameAt(1)) # <<>>
    /\ RecordsOf(db_file, NameAt(1)) = RecordsOf(db_at_start, NameAt(1))

\* the failures of the four image operations made for one line
LineLevelFailures ==
    {"failed: embedded save", "failed: crop", "failed: mapped fetch",
     "failed: placeholder"}

\* C10 (as claimed): no invoice is ever given up because an image operation
\* for one of its lines failed.
C10_LineFailureNeverAborts ==
    \A i \in DOMAIN outcome : outcome[i] \notin LineLevelFailures

\* C11 (as claimed): for an eBay-named file no invoice is given up because the
\* OCR engine could not be loaded, and whenever the OCR pass gave no lines the
\* lines are the synthetic ones (one per embedded image) when the text parser
\* gave none and embedded images exist, and the text parser's otherwise.
C11_OcrFailureNotFatal ==
    /\ \A i \in DOMAIN outcome : outcome[i] # "failed: ocr engine"
    /\ (pc = "overrides" /\ is_ebay_file(NameAt(idx))) =>
           \/ \E read \in OcrReads :
                  /\ read.variants # <<>>
                  /\ lines = extract_ebay_lines_from_ocr(NameAt(idx), read)
           \/ lines = IF result.lines = <<>> /\ product_images > 0
                      THEN make_ebay_fallback_lines(NameAt(idx), product_images)
                      ELSE result.lines

\* C12 (as claimed): when ingest_one exits, by returning its record or by an
\* exception, the page PNG rendered for its PDF does not exist.
C12_PageRemovedOnExit ==
    /\ pc = "returned" => TmpName(NameAt(idx)) \notin tmp_files
    /\ \A i \in DOMAIN outcome :
           outcome[i] \in IngestOneFailures => TmpName(NameAt(i)) \notin tmp_files

(***************************************************************************)
(* Two callers run the rendered-page strategy of ingest_one (lines 311-327) *)
(* at the same time, each for its own PDF path, on the shared .tmp.         *)
(***************************************************************************)
\* the directories and file names a PDF path is made of
Paths ==
    [dir : {"invoices", "archive"},
     name : {"inv-a.pdf", "inv-b.pdf", "eBay-1.pdf", "inv-a.PDF"}]

\* INVOICES_DIR.glob("*.pdf"): the paths ingest_all hands to ingest_one
Globbed(path) ==
    path.dir = "invoices" /\ path.name \in {"inv-a.pdf", "inv-b.pdf", "eBay-1.pdf"}

\* page_png of the caller
PagePng(i) == TmpName(pdf_files[i].name)

tmpFrame ==
    <<text, result, pdf_files, db_file, images, image_map_file,
      line_overrides_file, runs_left, reprocess_existing, pc, idx, db, existing,
      outcome, db_at_start, now, parsed, lines, product_images, image_map,
      line_overrides, k, used_embedded, embedded_skus, mapped_skus, written>>

InitTmp ==
    /\ pdf_files \in {pair \in Paths \X Paths : pair[1] # pair[2]}
    /\ callers = <<"render", "render">>
    /\ tmp_files = {}
    /\ pc = "concurrent"
    /\ text = <<>>
    /\ result = NoResult
    /\ db_file = <<>>
    /\ images = <<>>
    /\ image_map_file = <<>>
    /\ line_overrides_file = <<>>
    /\ runs_left = 0
    /\ reprocess_existing = FALSE
    /\ idx = 0
    /\ db = <<>>
    /\ existing = {}
    /\ outcome = <<>>
    /\ db_at_start = <<>>
    /\ now = 0
    /\ LocalsIdle

\* line 313: render_first_page_to_png writes the page, or raises
CallerRender(i) ==
    /\ callers[i] = "render"
    /\ \/ /\ tmp_files' = tmp_files \cup {PagePng(i)}
          /\ callers' = [callers EXCEPT ![i] = "crop"]
       \/ /\ tmp_files' \in {tmp_files, tmp_files \cup {PagePng(i)}}
          /\ callers' = [callers EXCEPT ![i] = "exited"]
    /\ UNCHANGED tmpFrame

\* lines 316-321: the crops read the page
CallerCrop(i) ==
    /\ callers[i] = "crop"
    /\ callers' = [callers EXCEPT ![i] = "unlink"]
    /\ UNCHANGED <<tmpFrame, tmp_files>>

\* lines 322-327: if page_png.exists(): page_png.unlink()
CallerUnlink(i) ==
    /\ callers[i] = "unlink"
    /\ \/ tmp_files' = tmp_files \ {PagePng(i)}
       \/ \* unlink raised: warning only
          tmp_files' = tmp_files
    /\ callers' = [callers EXCEPT ![i] = "exited"]
    /\ UNCHANGED tmpFrame

NextTmp ==
    \E i \in 1..2 :
        \/ CallerRender(i)
        \/ CallerCrop(i)
        \/ CallerUnlink(i)

SpecTmp == InitTmp /\ [][NextTmp]_vars

\* the page of a caller is there from its render to its unlink unless its own
\* unlink removed it: no other caller took it away
OwnPageKept ==
    /\ PagePng(1) # PagePng(2)
    /\ \A i \in 1..2 : callers[i] \in {"crop", "unlink"} => PagePng(i) \in tmp_files

C14_CropOnlyWithoutEmbedded ==
    pc = "crop" => (parsed.supplier = "bambu" /\ product_images = 0)

\* C15: a turn of the placeholder loop that does not raise touches no file but
\* that of its line's SKU; it leaves that file alone when the SKU got an
\* embedded or a mapped image in this ingestion; otherwise it writes the
\* placeholder anew when the supplier is jaycar or generic, and for any other
\* supplier writes it only when no file exists and leaves an existing file as
\* it is.
C15_PlaceholderRefreshPolicy ==
    [][ (pc = "placeholder" /\ k <= Len(lines) /\ pc' = "placeholder") =>
            LET sku == Upper(lines[k].sku)
            IN  /\ \A other \in DOMAIN images \ {sku} : images'[other] = images[other]
                /\ sku \in embedded_skus \cup mapped_skus => images' = images
                /\ sku \notin embedded_skus \cup mapped_skus =>
                       IF parsed.supplier \in {"jaycar", "generic"}
                       THEN images'[sku] = Thumb("placeholder")
                       ELSE IF images[sku].kind # "none"
                       THEN images'[sku] = images[sku]
                       ELSE images'[sku] = Thumb("placeholder") ]_vars

\* the second run of the batch: the bambu thumbnail of the first run was left
\* alone, the jaycar placeholder of the first run was written again
C15_Witness ==
    /\ pc = "returned"
    /\ now = 2
    /\ pdf_files = <<BatchB, BatchA>>
    /\ idx = 2
    /\ outcome[1] = "ingested"
    /\ images[SkuA] = [kind |-> "placeholder", at |-> 1]
    /\ parsed.supplier = "jaycar"
    /\ embedded_skus = {} /\ mapped_skus = {}
    /\ RecordsOf(db_at_start, NameAt(2)) # <<>>
    /\ images["TX1234"] = [kind |-> "placeholder", at |-> 2]

(***************************************************************************)
(* Properties of the jaycar row filter (checked under SpecParse).          *)
(***************************************************************************)
RECURSIVE JaycarMatchesFrom(_, _)
\* row_pattern.finditer(text) from token i on: every matched row, as the
\* token indices of its code and of its quantity
JaycarMatchesFrom(txt, i) ==
    IF i > Len(txt) THEN <<>>
    ELSE LET j == RowQtyIndex(txt, i)
         IN  IF j = 0 THEN JaycarMatchesFrom(txt, i + 1)
             ELSE <<[code |-> i, qty |-> j]>> \o JaycarMatchesFrom(txt, j + 3)

FilamentKeywords == {"FILAMENT", "PLA", "PETG", "ABS", "TPU", "NYLON"}

\* upper-cased tokens in which keyword kw stands as a whole word (\bkw\b)
WholeWordIn(kw) == IF kw = "PLA" THEN {"PLA", "PLA+"} ELSE {kw}

HasWholeWordKeyword(name) ==
    \E j \in 1..Len(name) : \E kw \in FilamentKeywords :
        Upper(name[j]) \in WholeWordIn(kw)

\* C16 (as claimed): the lines of a jaycar result are those of the matched
\* rows whose name holds one of FILAMENT, PLA, PETG, ABS, TPU, NYLON as a
\* whole word, in row order; a row with a keyword only inside a longer word is
\* discarded.
C16_WholeWordKeyword ==
    (pc = "parsed" /\ result.supplier = "jaycar") =>
        LET rows == JaycarMatchesFrom(text, 1)
            kept == SelectSeq(rows,
                        LAMBDA r : HasWholeWordKeyword(
                                       SubSeq(text, r.code + 1, r.qty - 1)))
        IN  result.lines =
                [n \in 1..Len(kept) |-> JaycarLine(text, kept[n].code, kept[n].qty)]

(***************************************************************************)
(* Properties of the persisted catalog (checked under Spec).               *)
(***************************************************************************)
\* C17: the persisted catalog never holds two records of one sourceFile; the
\* records it held when a run began keep their places and their keys; a run
\* without reprocess_existing leaves each of them as it was; and an invoice
\* counted as ingested has exactly one record, that of this run, which took
\* the place of the old one when there was one.
C17_CatalogKeysUnique ==
    /\ \A i, j \in 1..Len(db_file) :
           i # j => db_file[i].sourceFile # db_file[j].sourceFile
    /\ Len(db_file) >= Len(db_at_start)
    /\ \A j \in 1..Len(db_at_start) :
           /\ db_file[j].sourceFile = db_at_start[j].sourceFile
           /\ ~reprocess_existing => db_file[j] = db_at_start[j]
    /\ \A i \in DOMAIN outcome :
           outcome[i] = "ingested" =>
               /\ Len(RecordsOf(db_file, NameAt(i))) = 1
               /\ RecordsOf(db_file, NameAt(i))[1].ingestedAt = now

\* the second run re-ingested one file of the catalog in place and failed on
\* the other
C17_Witness ==
    /\ pc = "idle"
    /\ now = 2 /\ reprocess_existing
    /\ Len(db_at_start) = 2 /\ Len(db_file) = 2
    /\ \E i \in 1..2 :
           /\ outcome[i] = "ingested"
           /\ outcome[3 - i] \in IngestOneFailures
           /\ \E j \in 1..2 :
                  /\ db_at_start[j].sourceFile = NameAt(i)
                  /\ db_at_start[j].ingestedAt = 1
                  /\ db_file[j].sourceFile = NameAt(i)
                  /\ db_file[j].ingestedAt = 2
                  /\ db_file[3 - j] = db_at_start[3 - j]

====
